---------------------------- MODULE Spec2Model ----------------------------
(***************************************************************************)
(* CHIP-8 interpreter of src/src/chip8.cpp: the machine state of class     *)
(* chip8, its operations initialize, emulate_cycle and set_key, and the    *)
(* driver loop of main (poll input, ten cycles, present the framebuffer).  *)
(***************************************************************************)
EXTENDS Integers, Sequences, FiniteSets, TLC

(* ------------------------------ bounds -------------------------------- *)

\* the input source presses and releases the keys 0..MaxKey
MaxKey == 1
\* rand() % 256 yields a byte of 0..MaxRand, or 127, 128 or 255
MaxRand == 0
\* the register indices the ROMs of OpRoms use are 0..MaxReg and 0xF
MaxReg == 1
\* a byte read beyond the end of memory holds a value of 0..MaxGarbage
MaxGarbage == 1
\* emulate_cycle is followed through at most MaxOob out-of-range fetches
MaxOob == 2

(* ------------------------- program constants -------------------------- *)

MemSize == 4096
RomBase == 512
GfxWidth == 64
GfxHeight == 32
NumRegs == 16
NumKeys == 16
StackLimit == 16
FontSize == 80
cyclesPerFrame == 10

RandBytes == (0..MaxRand) \cup {127, 128, 255}
GarbageBytes == 0..MaxGarbage
InputKeys == 0..MaxKey
RegSamples == (0..MaxReg) \cup {15}
\* the indices a caller of set_key passes: int, of which 0..15 are keys
KeyIndices == {-1, 0, NumKeys - 1, NumKeys}

(* ------------------------ fixed-width arithmetic ---------------------- *)

\* unsigned char: a value stored into an 8-bit cell
U8(n) == n % 256
\* unsigned short: pc, I and opcode are 16-bit (declared in chip8.h)
U16(n) == n % 65536

\* bit k of n
Bit(n, k) == (n \div (2 ^ k)) % 2

\* a & b, a | b, a ^ b on bytes
AndB(a, b) ==
  LET s[k \in 0..8] == IF k = 8 THEN 0 ELSE Bit(a, k) * Bit(b, k) * (2 ^ k) + s[k + 1]
  IN s[0]
OrB(a, b) ==
  LET s[k \in 0..8] ==
        IF k = 8 THEN 0
        ELSE (IF Bit(a, k) + Bit(b, k) > 0 THEN 2 ^ k ELSE 0) + s[k + 1]
  IN s[0]
XorB(a, b) ==
  LET s[k \in 0..8] ==
        IF k = 8 THEN 0
        ELSE ((Bit(a, k) + Bit(b, k)) % 2) * (2 ^ k) + s[k + 1]
  IN s[0]

(* ----------------------------- the font ------------------------------- *)

\* the 80 bytes of chip8_font (declared in chip8.h): the glyphs 0..F
chip8_font ==
  << 240, 144, 144, 144, 240,    32,  96,  32,  32, 112,
     240,  16, 240, 128, 240,   240,  16, 240,  16, 240,
     144, 144, 240,  16,  16,   240, 128, 240,  16, 240,
     240, 128, 240, 144, 240,   240,  16,  32,  64,  64,
     240, 144, 240, 144, 240,   240, 144, 240,  16, 240,
     240, 144, 240, 144, 144,   224, 144, 224, 144, 224,
     240, 128, 128, 128, 240,   224, 144, 144, 144, 224,
     240, 128, 240, 128, 240,   240, 128, 240, 128, 128 >>

(* --------------------------- opcode fields ---------------------------- *)

Family(op) == op \div 4096
OpX(op) == (op \div 256) % 16
OpY(op) == (op \div 16) % 16
OpN(op) == op % 16
OpNN(op) == op % 256
OpNNN(op) == op % 4096

(* ------------------------------ messages ------------------------------ *)

MsgUnknown == "Unknown opcode"
MsgUnderflow == "Stack underflow!"
MsgOverflow == "Stack overflow!"
MsgBounds == "Memory access out of bounds!"
MsgSound == "Sound timer ended!"
MsgInvalidKey(key_index) == "Invalid key index: " \o ToString(key_index)

Say(m, msg) == [m EXCEPT !.out = Append(@, msg)]

(* ----------------------------- initialize ----------------------------- *)

\* the global object myChip8 before main runs: static storage, all zero
Fresh ==
  [ opcode |-> 0, I |-> 0, pc |-> 0, sp |-> 0,
    delay_timer |-> 0, sound_timer |-> 0,
    memory |-> [a \in 0..(MemSize - 1) |-> 0],
    V |-> [r \in 0..(NumRegs - 1) |-> 0],
    gfx |-> [p \in 0..(GfxWidth * GfxHeight - 1) |-> 0],
    key |-> [k \in 0..(NumKeys - 1) |-> 0],
    stack |-> [s \in 0..(StackLimit - 1) |-> 0],
    drawFlag |-> FALSE,
    out |-> << >>, oob |-> 0, keyIndex |-> -1, returned |-> FALSE ]

\* initialize with the loop that clears the keypad left out
initializeKeepsKeys(m) ==
  [m EXCEPT !.opcode = 0, !.I = 0, !.pc = RomBase, !.sp = 0,
            !.delay_timer = 0, !.sound_timer = 0,
            !.memory = [a \in DOMAIN m.memory |->
                          IF a < FontSize THEN chip8_font[a + 1] ELSE 0],
            !.V = [r \in DOMAIN m.V |-> 0],
            !.gfx = [p \in DOMAIN m.gfx |-> 0],
            !.stack = [s \in DOMAIN m.stack |-> 0],
            !.drawFlag = FALSE,
            !.out = << >>, !.keyIndex = -1]

\* the assignments and the clearing loops, then the font copied to
\* memory[0..79]; nothing is written to cerr or stdout
initialize(m) ==
  [m EXCEPT !.opcode = 0, !.I = 0, !.pc = RomBase, !.sp = 0,
            !.delay_timer = 0, !.sound_timer = 0,
            !.memory = [a \in DOMAIN m.memory |->
                          IF a < FontSize THEN chip8_font[a + 1] ELSE 0],
            !.V = [r \in DOMAIN m.V |-> 0],
            !.gfx = [p \in DOMAIN m.gfx |-> 0],
            !.key = [k \in DOMAIN m.key |-> 0],
            !.stack = [s \in DOMAIN m.stack |-> 0],
            !.drawFlag = FALSE,
            !.out = << >>, !.keyIndex = -1]

(* ------------------------ emulate_cycle: fetch ------------------------ *)

\* memory[a] as the fetch reads it: beyond the array the value is whatever
\* the build keeps there (g)
ReadMem(m, a, g) == IF a < MemSize THEN m.memory[a] ELSE g

\* opcode = memory[pc] << 8 | memory[pc + 1]
Fetch(m, g1, g2) ==
  [m EXCEPT !.opcode = ReadMem(m, m.pc, g1) * 256 + ReadMem(m, m.pc + 1, g2),
            !.out = << >>,
            !.returned = FALSE,
            !.keyIndex = -1,
            !.oob = IF m.pc + 1 >= MemSize THEN @ + 1 ELSE @]

\* pc += n
Advance(m, n) == [m EXCEPT !.pc = U16(@ + n)]

\* "Unknown opcode" and pc += 2 (the default labels)
UnknownOpcode(m) == Advance(Say(m, MsgUnknown), 2)

(* ----------------------- emulate_cycle: family 0 ---------------------- *)

\* 00E0
ClearDisplay(m) ==
  Advance([m EXCEPT !.gfx = [p \in DOMAIN m.gfx |-> 0], !.drawFlag = TRUE], 2)

\* 00EE with the return of the underflow branch left out: the step goes on
\* to the timers
ReturnSubNoReturn(m) ==
  IF m.sp > 0
    THEN [m EXCEPT !.sp = m.sp - 1, !.pc = m.stack[m.sp - 1]]
    ELSE Say(m, MsgUnderflow)

\* 00EE
ReturnSub(m) ==
  IF m.sp > 0
    THEN [m EXCEPT !.sp = m.sp - 1, !.pc = m.stack[m.sp - 1]]
    ELSE [Say(m, MsgUnderflow) EXCEPT !.returned = TRUE]

Op0(m) ==
  CASE OpNN(m.opcode) = 224 -> ClearDisplay(m)
    [] OpNN(m.opcode) = 238 -> ReturnSub(m)
    [] OTHER -> UnknownOpcode(m)

(* --------------------- emulate_cycle: 1NNN, 2NNN, BNNN ---------------- *)

Jump(m) == [m EXCEPT !.pc = OpNNN(m.opcode)]

\* 2NNN with the overflow test off by one (sp > 16)
CallSubOffByOne(m) ==
  IF m.sp > StackLimit
    THEN [Say(m, MsgOverflow) EXCEPT !.returned = TRUE]
    ELSE [m EXCEPT !.stack[m.sp] = U8(m.pc + 2),
                   !.sp = m.sp + 1,
                   !.pc = OpNNN(m.opcode)]

\* stack[sp] = pc + 2 stores into an unsigned char slot
CallSub(m) ==
  IF m.sp >= StackLimit
    THEN [Say(m, MsgOverflow) EXCEPT !.returned = TRUE]
    ELSE [m EXCEPT !.stack[m.sp] = U8(m.pc + 2),
                   !.sp = m.sp + 1,
                   !.pc = OpNNN(m.opcode)]

JumpV0(m) == [m EXCEPT !.pc = U16(OpNNN(m.opcode) + m.V[0])]

(* ------------------ emulate_cycle: skips, 6XNN, 7XNN ------------------ *)

SkipIf(m, cond) == IF cond THEN Advance(m, 4) ELSE Advance(m, 2)

LoadImm(m) == Advance([m EXCEPT !.V[OpX(m.opcode)] = OpNN(m.opcode)], 2)

\* 7XNN writing a carry to VF, as 8XY4 does
AddImmCarry(m) ==
  Advance([m EXCEPT !.V = [[@ EXCEPT ![15] =
                               IF m.V[OpX(m.opcode)] + OpNN(m.opcode) > 255
                                 THEN 1 ELSE 0]
                             EXCEPT ![OpX(m.opcode)] = U8(@ + OpNN(m.opcode))]], 2)

AddImm(m) == Advance([m EXCEPT !.V[OpX(m.opcode)] = U8(@ + OpNN(m.opcode))], 2)

(* ----------------------- emulate_cycle: family 8 ---------------------- *)

\* V[0xF] = f, the first statement of 8XY4..8XYE
SetFlag(m, f) == [m EXCEPT !.V[15] = f]

\* the inner switch of case 0x8000; in 8XY4..8XYE the flag is written first
\* and V[x] is then computed from the registers as they are after that write
Alu(m) ==
  LET x == OpX(m.opcode)
      y == OpY(m.opcode)
      V == m.V
      Sum(w) == [w EXCEPT !.V[x] = U8(w.V[x] + w.V[y])]
      Sub(w) == [w EXCEPT !.V[x] = U8(w.V[x] - w.V[y])]
      SubN(w) == [w EXCEPT !.V[x] = U8(w.V[y] - w.V[x])]
      Shr(w) == [w EXCEPT !.V[x] = w.V[x] \div 2]
      Shl(w) == [w EXCEPT !.V[x] = U8(w.V[x] * 2)]
  IN CASE OpN(m.opcode) = 0 -> [m EXCEPT !.V[x] = V[y]]
       [] OpN(m.opcode) = 1 -> [m EXCEPT !.V[x] = OrB(V[x], V[y])]
       [] OpN(m.opcode) = 2 -> [m EXCEPT !.V[x] = AndB(V[x], V[y])]
       [] OpN(m.opcode) = 3 -> [m EXCEPT !.V[x] = XorB(V[x], V[y])]
       [] OpN(m.opcode) = 4 ->
            Sum(SetFlag(m, IF V[y] > 255 - V[x] THEN 1 ELSE 0))
       [] OpN(m.opcode) = 5 ->
            Sub(SetFlag(m, IF V[x] >= V[y] THEN 1 ELSE 0))
       [] OpN(m.opcode) = 6 -> Shr(SetFlag(m, AndB(V[x], 1)))
       [] OpN(m.opcode) = 7 ->
            SubN(SetFlag(m, IF V[y] >= V[x] THEN 1 ELSE 0))
       [] OpN(m.opcode) = 14 -> Shl(SetFlag(m, AndB(V[x], 128) \div 128))
       [] OTHER -> Say(m, MsgUnknown)

Op8(m) == Advance(Alu(m), 2)

(* --------------------- emulate_cycle: ANNN, CXNN ---------------------- *)

SetIndex(m) == Advance([m EXCEPT !.I = OpNNN(m.opcode)], 2)

\* V[x] = (rand() % 256) & NN, r the value of rand() % 256
Random(m, r) ==
  Advance([m EXCEPT !.V[OpX(m.opcode)] = AndB(r, OpNN(m.opcode))], 2)

(* ------------------------- emulate_cycle: DXYN ------------------------ *)

\* the inner loop body setting the pixel (|=) instead of toggling it
DrawPixelSets(m, y, x) ==
  IF m.I + y < MemSize /\ Bit(m.memory[m.I + y], 7 - x) # 0
    THEN LET pixel_x == (m.V[OpX(m.opcode)] + x) % GfxWidth
             pixel_y == (m.V[OpY(m.opcode)] + y) % GfxHeight
             index == pixel_y * GfxWidth + pixel_x
             hit == m.gfx[index] = 1
         IN [m EXCEPT !.V[15] = IF hit THEN 1 ELSE @,
                      !.gfx[index] = OrB(@, 1)]
    ELSE m

\* one pass of the inner loop body, for row y and column x of the sprite
DrawPixel(m, y, x) ==
  IF m.I + y < MemSize /\ Bit(m.memory[m.I + y], 7 - x) # 0
    THEN LET pixel_x == (m.V[OpX(m.opcode)] + x) % GfxWidth
             pixel_y == (m.V[OpY(m.opcode)] + y) % GfxHeight
             index == pixel_y * GfxWidth + pixel_x
             hit == m.gfx[index] = 1
         IN [m EXCEPT !.V[15] = IF hit THEN 1 ELSE @,
                      !.gfx[index] = XorB(@, 1)]
    ELSE m

\* the two nested loops, k = 8 * y + x counting the passes done
RECURSIVE DrawLoop(_, _)
DrawLoop(m, k) ==
  IF k >= 8 * OpN(m.opcode) THEN m
  ELSE DrawLoop(DrawPixel(m, k \div 8, k % 8), k + 1)

\* DXYN with the assignment drawFlag = true left out
DrawForgetsFlag(m) == Advance(DrawLoop([m EXCEPT !.V[15] = 0], 0), 2)

Draw(m) ==
  Advance([DrawLoop([m EXCEPT !.V[15] = 0], 0) EXCEPT !.drawFlag = TRUE], 2)

(* ----------------------- emulate_cycle: family E ---------------------- *)

\* key[V[x]]: the keypad has 16 entries, V[x] is a byte; g stands for the
\* value found beyond the array
ReadKey(m, g) ==
  IF m.V[OpX(m.opcode)] < NumKeys THEN m.key[m.V[OpX(m.opcode)]] ELSE g

\* the subscript V[x] of key[V[x]], kept as the keypad entry this call read
Consult(m) == [m EXCEPT !.keyIndex = m.V[OpX(m.opcode)]]

OpE(m, g) ==
  CASE OpNN(m.opcode) = 158 -> SkipIf(Consult(m), ReadKey(m, g) # 0)
    [] OpNN(m.opcode) = 161 -> SkipIf(Consult(m), ReadKey(m, g) = 0)
    [] OTHER -> UnknownOpcode(m)

(* ----------------------- emulate_cycle: family F ---------------------- *)

\* the keys found pressed by the scan of FX0A
Pressed(m) == {k \in DOMAIN m.key : m.key[k] # 0}

\* the lowest member of a non-empty set of key indices
Lowest(S) == CHOOSE k \in S : \A j \in S : k <= j

\* FX0A leaving the switch (break) instead of returning when no key is pressed
WaitKeyBreaks(m) ==
  IF Pressed(m) = {}
    THEN m
    ELSE Advance([m EXCEPT !.V[OpX(m.opcode)] = Lowest(Pressed(m))], 2)

\* FX0A
WaitKey(m) ==
  IF Pressed(m) = {}
    THEN [m EXCEPT !.returned = TRUE]
    ELSE Advance([m EXCEPT !.V[OpX(m.opcode)] = Lowest(Pressed(m))], 2)

\* FX33
StoreBcd(m) ==
  LET value == m.V[OpX(m.opcode)]
  IN Advance(IF m.I < MemSize - 3
               THEN [m EXCEPT !.memory[m.I] = value \div 100,
                              !.memory[m.I + 1] = (value \div 10) % 10,
                              !.memory[m.I + 2] = value % 10]
               ELSE Say(m, MsgBounds), 2)

\* FX55 writing the cells that lie in memory when the block does not fit
StoreRegsTruncates(m) ==
  LET x == OpX(m.opcode)
  IN Advance(IF m.I + x < MemSize
               THEN [m EXCEPT !.memory = [a \in DOMAIN m.memory |->
                        IF a >= m.I /\ a <= m.I + x THEN m.V[a - m.I]
                        ELSE m.memory[a]]]
               ELSE [Say(m, MsgBounds) EXCEPT !.memory =
                       [a \in DOMAIN m.memory |->
                          IF a >= m.I /\ a <= m.I + x THEN m.V[a - m.I]
                          ELSE m.memory[a]]], 2)

\* FX55
StoreRegs(m) ==
  LET x == OpX(m.opcode)
  IN Advance(IF m.I + x < MemSize
               THEN [m EXCEPT !.memory = [a \in DOMAIN m.memory |->
                        IF a >= m.I /\ a <= m.I + x THEN m.V[a - m.I]
                        ELSE m.memory[a]]]
               ELSE Say(m, MsgBounds), 2)

\* FX65
LoadRegs(m) ==
  LET x == OpX(m.opcode)
  IN Advance(IF m.I + x < MemSize
               THEN [m EXCEPT !.V = [r \in DOMAIN m.V |->
                        IF r <= x THEN m.memory[m.I + r] ELSE m.V[r]]]
               ELSE Say(m, MsgBounds), 2)

\* the inner switch of case 0xF000
SwitchF(m) ==
  LET x == OpX(m.opcode)
  IN CASE OpNN(m.opcode) = 7 -> Advance([m EXCEPT !.V[x] = m.delay_timer], 2)
       [] OpNN(m.opcode) = 10 -> WaitKey(m)
       [] OpNN(m.opcode) = 21 -> Advance([m EXCEPT !.delay_timer = m.V[x]], 2)
       [] OpNN(m.opcode) = 24 -> Advance([m EXCEPT !.sound_timer = m.V[x]], 2)
       [] OpNN(m.opcode) = 30 -> Advance([m EXCEPT !.I = U16(@ + m.V[x])], 2)
       [] OpNN(m.opcode) = 41 -> Advance([m EXCEPT !.I = m.V[x] * 5], 2)
       [] OpNN(m.opcode) = 51 -> StoreBcd(m)
       [] OpNN(m.opcode) = 85 -> StoreRegs(m)
       [] OpNN(m.opcode) = 101 -> LoadRegs(m)
       [] OTHER -> UnknownOpcode(m)

\* case 0xF000 has no break after its inner switch: unless the inner switch
\* returned, control runs on into the outer default label
OpF(m) ==
  LET r == SwitchF(m)
  IN IF r.returned THEN r ELSE UnknownOpcode(r)

(* ------------------------ emulate_cycle: timers ----------------------- *)

\* the timers with the test for the message made after the decrement
TickTestsLate(m) ==
  LET d == [m EXCEPT !.delay_timer = IF @ > 0 THEN @ - 1 ELSE @]
  IN IF d.sound_timer > 0
       THEN LET e == [d EXCEPT !.sound_timer = @ - 1]
            IN IF e.sound_timer = 1 THEN Say(e, MsgSound) ELSE e
       ELSE d

Tick(m) ==
  LET d == [m EXCEPT !.delay_timer = IF @ > 0 THEN @ - 1 ELSE @]
  IN IF d.sound_timer > 0
       THEN [(IF d.sound_timer = 1 THEN Say(d, MsgSound) ELSE d)
               EXCEPT !.sound_timer = @ - 1]
       ELSE d

(* --------------------------- emulate_cycle ---------------------------- *)

\* the outer switch on opcode & 0xF000
Dispatch(m, r, g) ==
  LET op == m.opcode
      Vx == m.V[OpX(op)]
      Vy == m.V[OpY(op)]
  IN CASE Family(op) = 0 -> Op0(m)
       [] Family(op) = 1 -> Jump(m)
       [] Family(op) = 2 -> CallSub(m)
       [] Family(op) = 3 -> SkipIf(m, Vx = OpNN(op))
       [] Family(op) = 4 -> SkipIf(m, Vx # OpNN(op))
       [] Family(op) = 5 -> SkipIf(m, Vx = Vy)
       [] Family(op) = 6 -> LoadImm(m)
       [] Family(op) = 7 -> AddImm(m)
       [] Family(op) = 8 -> Op8(m)
       [] Family(op) = 9 -> SkipIf(m, Vx # Vy)
       [] Family(op) = 10 -> SetIndex(m)
       [] Family(op) = 11 -> JumpV0(m)
       [] Family(op) = 12 -> Random(m, r)
       [] Family(op) = 13 -> Draw(m)
       [] Family(op) = 14 -> OpE(m, g)
       [] OTHER -> OpF(m)

\* one call of emulate_cycle: g1, g2 are what lies beyond memory when the
\* fetch reads there, r is rand() % 256, g what lies beyond the keypad
emulate_cycle(m, g1, g2, r, g) ==
  LET d == Dispatch(Fetch(m, g1, g2), r, g)
  IN IF d.returned THEN d ELSE Tick(d)

(* ------------------------------ set_key ------------------------------- *)

\* set_key with the range test left out: the store goes to key[key_index]
\* wherever that lies
set_keyUnchecked(m, key_index, pressed) ==
  [m EXCEPT !.key = [k \in DOMAIN m.key \cup {key_index} |->
                       IF k = key_index THEN (IF pressed THEN 1 ELSE 0)
                       ELSE m.key[k]],
            !.out = << >>]

set_key(m, key_index, pressed) ==
  IF key_index >= 0 /\ key_index < NumKeys
    THEN [m EXCEPT !.key[key_index] = IF pressed THEN 1 ELSE 0,
                   !.out = << >>]
    ELSE [m EXCEPT !.out = <<MsgInvalidKey(key_index)>>]

(* ---------------------------- drawGraphics ---------------------------- *)

\* the window after drawGraphics: a white rectangle for every pixel of gfx
\* that is not 0, black elsewhere
drawGraphics(g) == [p \in DOMAIN g |-> IF g[p] # 0 THEN 1 ELSE 0]

(* -------------------------------- ROMs -------------------------------- *)

\* the 16-bit instruction word with nibbles f, x, y, n
Ins(f, x, y, n) == f * 4096 + x * 256 + y * 16 + n

\* a ROM file holding the instruction words ws, big-endian
RomOf(ws) ==
  [b \in 1..(2 * Len(ws)) |->
     IF b % 2 = 1 THEN ws[(b + 1) \div 2] \div 256 ELSE ws[b \div 2] % 256]

\* ws followed by n zero words
Pad(ws, n) == ws \o [k \in 1..n |-> 0]

\* 0x200: store the word 12F2 (jump to 0x2F2) at 0x0F2, jump to 0x2F0;
\* 0x2F0: call 0x2F4; 0x2F2: halt; 0x2F4: return
RomCall ==
  RomOf(Pad(<<Ins(10, 0, 15, 2), Ins(6, 0, 1, 2), Ins(6, 1, 15, 2),
              Ins(15, 1, 5, 5), 0, Ins(1, 2, 15, 0)>>, 114)
        \o <<Ins(2, 2, 15, 4), Ins(1, 2, 15, 2), Ins(0, 0, 14, 14)>>)

\* V0 = 0xFF, delay = V0, sound = V0, then from 0x20A on seventeen calls,
\* each to the instruction after it
RomNest ==
  RomOf(<<Ins(6, 0, 15, 15), Ins(15, 0, 1, 5), 0, Ins(15, 0, 1, 8), 0>>
        \o [k \in 1..17 |-> Ins(2, 0, 0, 0) + RomBase + 10 + 2 * k])

\* V0 = v, delay = V0, sound = V0, then a return with the stack empty
RomUnder(v) ==
  RomOf(<<Ins(6, 0, 0, 0) + v, Ins(15, 0, 1, 5), 0, Ins(15, 0, 1, 8), 0,
          Ins(0, 0, 14, 14)>>)

\* V0 = v, sound = V0, delay = V0, V1 = delay, halt at 0x20E
RomTimer(v) ==
  RomOf(<<Ins(6, 0, 0, 0) + v, Ins(15, 0, 1, 8), 0, Ins(15, 0, 1, 5), 0,
          Ins(15, 1, 0, 7), 0, Ins(1, 2, 0, 14)>>)

\* V0 = 5, delay = V0, then at 0x206 wait for a key into V1; halts at 0x208
\* and at 0x20A
RomKey ==
  RomOf(<<Ins(6, 0, 0, 5), Ins(15, 0, 1, 5), 0, Ins(15, 1, 0, 10),
          Ins(1, 2, 0, 8), Ins(1, 2, 0, 10)>>)

\* Vx and Vy random, then 8XYk, then Vx = Vy = VF = 0, halt at 0x20C
RomAlu(x, y, k) ==
  RomOf(<<Ins(12, x, 15, 15), Ins(12, y, 15, 15), Ins(8, x, y, k),
          Ins(6, x, 0, 0), Ins(6, y, 0, 0), Ins(6, 15, 0, 0),
          Ins(1, 2, 0, 12)>>)

\* the rest of family 8: V0 = 0xF0, V1 = 0x3C, or, and, xor, copy, 8018,
\* halt at 0x20E
RomLogic ==
  RomOf(<<Ins(6, 0, 15, 0), Ins(6, 1, 3, 12), Ins(8, 0, 1, 1), Ins(8, 0, 1, 2),
          Ins(8, 0, 1, 3), Ins(8, 0, 1, 0), Ins(8, 0, 1, 8), Ins(1, 2, 0, 14)>>)

\* Vx = vx, Vy = vy, I = 0x210, DXY1, three times DXYn, halt at 0x20E; the
\* sprite rows 0xC0, 0x81 lie at 0x210
RomDraw(x, y, vx, vy, n) ==
  RomOf(<<Ins(6, x, 0, 0) + vx, Ins(6, y, 0, 0) + vy, Ins(10, 2, 1, 0),
          Ins(13, x, y, 1),
          Ins(13, x, y, n), Ins(13, x, y, n), Ins(13, x, y, n),
          Ins(1, 2, 0, 14), Ins(12, 0, 8, 1)>>)

\* clear the display, the four skips, then jump to the address t
RomJump(t) ==
  RomOf(<<Ins(0, 0, 14, 0), Ins(4, 0, 0, 0), Ins(9, 0, 0, 0), Ins(3, 0, 0, 0),
          0, Ins(5, 0, 0, 0), 0, Ins(1, 0, 0, 0) + t>>)

\* V0 = 1, skip if key V0 is pressed, skip if key V0 is not pressed, halt at
\* 0x20A
RomSkip ==
  RomOf(<<Ins(6, 0, 0, 1), Ins(14, 0, 9, 14), 0, Ins(14, 0, 10, 1), 0,
          Ins(1, 2, 0, 10)>>)

\* V0 = v, skip if key V0 is pressed, skip if key V0 is not pressed, halt at
\* 0x20A
RomSkipAt(v) ==
  RomOf(<<Ins(6, 0, 0, 0) + v, Ins(14, 0, 9, 14), 0, Ins(14, 0, 10, 1), 0,
          Ins(1, 2, 0, 10)>>)

\* V0 = 0xFF, jump to 0xFFF + V0
RomJumpV0 == RomOf(<<Ins(6, 0, 15, 15), Ins(11, 15, 15, 15)>>)

\* Vx = v, I = iv, FX33 with x = 0, halt at 0x208
RomBcd(v, iv) ==
  RomOf(<<Ins(6, 0, 0, 0) + v, Ins(10, 0, 0, 0) + iv, Ins(15, 0, 3, 3), 0,
          Ins(1, 2, 0, 8)>>)

\* V0 = 0x11, V1 = 0x22, VF = 0x33, I = iv, FX55, halt at 0x20C
RomStore(x, iv) ==
  RomOf(<<Ins(6, 0, 1, 1), Ins(6, 1, 2, 2), Ins(6, 15, 3, 3),
          Ins(10, 0, 0, 0) + iv, Ins(15, x, 5, 5), 0, Ins(1, 2, 0, 12)>>)

\* V0 = 0x11, V1 = 0x22, VF = 0x33, I = iv, FX65, then V0 = V1 = VF = 0,
\* halt at 0x212
RomLoad(x, iv) ==
  RomOf(<<Ins(6, 0, 1, 1), Ins(6, 1, 2, 2), Ins(6, 15, 3, 3),
          Ins(10, 0, 0, 0) + iv, Ins(15, x, 6, 5), 0,
          Ins(6, 0, 0, 0), Ins(6, 1, 0, 0), Ins(6, 15, 0, 0),
          Ins(1, 2, 0, 18)>>)

\* V0 = 0x11, I = 0x123, then the words 0123, 8018, E0FF and F0FF, none of
\* which is an instruction; halt at 0x20E
RomUnknown ==
  RomOf(<<Ins(6, 0, 1, 1), Ins(10, 1, 2, 3), Ins(0, 1, 2, 3), Ins(8, 0, 1, 8),
          Ins(14, 0, 15, 15), Ins(15, 0, 15, 15), 0, Ins(1, 2, 0, 14)>>)

\* VF = 7, Vx = a, 7XNN with NN = b, then Vx = VF = 0, halt at 0x20A
RomImm(x, a, b) ==
  RomOf(<<Ins(6, 15, 0, 7), Ins(6, x, 0, 0) + a, Ins(7, x, 0, 0) + b,
          Ins(6, x, 0, 0), Ins(6, 15, 0, 0), Ins(1, 2, 0, 10)>>)

\* the ROM files run with the keyboard and the window in use
Roms ==
  {RomCall, RomNest, RomKey, RomSkip, RomLogic, RomJumpV0, RomUnknown,
   RomAlu(0, 1, 4), RomDraw(0, 1, 62, 31, 2)}
  \cup {RomUnder(v) : v \in {0, 3}}
  \cup {RomTimer(v) : v \in 0..3}
  \cup {RomJump(t) : t \in {4094, 4095}}
  \cup {RomSkipAt(v) : v \in {15, 16, 255}}

\* the ROM files run with no input event arriving: the flag instructions of
\* family 8 and the sprite draws, over the sampled registers and values
OpRoms ==
  {RomAlu(x, y, k) : x \in RegSamples, y \in RegSamples,
                     k \in {4, 5, 6, 7, 14}}
  \cup {RomDraw(x, y, p[1], p[2], n) :
          x \in RegSamples, y \in RegSamples,
          p \in {<<0, 0>>, <<62, 31>>}, n \in 0..2}
  \cup {RomBcd(v, iv) : v \in {7, 156, 255},
                        iv \in {768, 4092, 4093, 4094, 4095}}
  \cup {RomStore(x, iv) : x \in RegSamples,
                          iv \in {768, 4080, 4081, 4094, 4095}}
  \cup {RomLoad(x, iv) : x \in RegSamples,
                         iv \in {512, 4080, 4081, 4094, 4095}}
  \cup {RomImm(x, a, b) : x \in RegSamples, a \in {0, 200, 255},
                          b \in {0, 1, 100, 255}}

\* the ROM files run by a caller that uses the methods of myChip8 in any
\* order
ApiRoms == {RomCall, RomNest, RomKey, RomUnder(3), RomDraw(0, 1, 62, 31, 2)}

(* ------------------------------ loadROM ------------------------------- *)

loadROM(m, buffer) ==
  LET maxSize == MemSize - RomBase
      loadSize == IF Len(buffer) < maxSize THEN Len(buffer) ELSE maxSize
  IN [m EXCEPT !.memory = [a \in DOMAIN m.memory |->
        IF a >= RomBase /\ a < RomBase + loadSize
          THEN buffer[a - RomBase + 1] ELSE m.memory[a]]]

(* ------------------------------ the state ----------------------------- *)

VARIABLES
  memory, V, I, pc, sp, stack, delay_timer, sound_timer, key, gfx, drawFlag,
  opcode,   \* the fields of myChip8
  out,      \* what the latest call of emulate_cycle wrote to cerr and stdout
  oob,      \* the calls of emulate_cycle that fetched beyond memory
  keyIndex, \* the subscript of key[] the latest emulate_cycle read, or -1
  before,   \* the fields of myChip8 when the latest emulate_cycle was entered
  loop,     \* where main is: "load", "poll", "cycles", "exit"
  i,        \* the cycle counter of main's for loop
  quit,     \* main's quit flag
  screen    \* the window: the pixels last handed to SDL_RenderPresent

vars ==
  <<memory, V, I, pc, sp, stack, delay_timer, sound_timer, key, gfx, drawFlag,
    opcode, out, oob, keyIndex, before, loop, i, quit, screen>>

\* myChip8 as one value
Chip ==
  [ opcode |-> opcode, I |-> I, pc |-> pc, sp |-> sp,
    delay_timer |-> delay_timer, sound_timer |-> sound_timer,
    memory |-> memory, V |-> V, gfx |-> gfx, key |-> key, stack |-> stack,
    drawFlag |-> drawFlag, out |-> out, oob |-> oob, keyIndex |-> keyIndex,
    returned |-> FALSE ]

\* myChip8 becomes m
Becomes(m) ==
  /\ opcode' = m.opcode /\ I' = m.I /\ pc' = m.pc /\ sp' = m.sp
  /\ delay_timer' = m.delay_timer /\ sound_timer' = m.sound_timer
  /\ memory' = m.memory /\ V' = m.V /\ gfx' = m.gfx /\ key' = m.key
  /\ stack' = m.stack /\ drawFlag' = m.drawFlag /\ out' = m.out
  /\ oob' = m.oob /\ keyIndex' = m.keyIndex

\* the fields a later step is compared with
Snapshot(m) ==
  [ opcode |-> m.opcode, I |-> m.I, pc |-> m.pc, sp |-> m.sp,
    delay_timer |-> m.delay_timer, sound_timer |-> m.sound_timer,
    V |-> m.V, gfx |-> m.gfx, stack |-> m.stack, key |-> m.key ]

\* myChip8 after main's call myChip8.initialize()
Started == initialize(Fresh)

\* main up to the emulation loop: srand, myChip8.initialize(), and initSDL,
\* which presents a cleared (black) window
Init ==
  /\ opcode = Started.opcode /\ I = Started.I /\ pc = Started.pc
  /\ sp = Started.sp /\ delay_timer = Started.delay_timer
  /\ sound_timer = Started.sound_timer /\ memory = Started.memory
  /\ V = Started.V /\ gfx = Started.gfx /\ key = Started.key
  /\ stack = Started.stack /\ drawFlag = Started.drawFlag
  /\ out = Started.out /\ oob = Started.oob /\ keyIndex = Started.keyIndex
  /\ before = Snapshot(Started)
  /\ loop = "load"
  /\ i = 0
  /\ quit = FALSE
  /\ screen = [p \in 0..(GfxWidth * GfxHeight - 1) |-> 0]

(* ------------------------------- main --------------------------------- *)

\* main is followed from after myChip8.initialize() and initSDL(), started
\* with a ROM file name (argc > 1)

\* loadROM(argv[1]) succeeds on a file of the set files
LoadFrom(files) ==
  /\ loop = "load"
  /\ \E buffer \in files : Becomes(loadROM(Chip, buffer))
  /\ loop' = "poll"
  /\ UNCHANGED <<before, i, quit, screen>>

LoadRom == LoadFrom(Roms)

LoadOpRom == LoadFrom(OpRoms)

\* argc > 1 and the ROM file cannot be opened or read: return 1
LoadFails ==
  /\ loop = "load"
  /\ loop' = "exit"
  /\ UNCHANGED <<memory, V, I, pc, sp, stack, delay_timer, sound_timer, key,
                 gfx, drawFlag, opcode, out, oob, keyIndex, before, i, quit, screen>>

\* SDL_PollEvent delivers a key event of keyMap[k]: handleInput calls set_key
KeyEvent ==
  /\ loop = "poll"
  /\ \E k \in InputKeys, pressed \in BOOLEAN : Becomes(set_key(Chip, k, pressed))
  /\ UNCHANGED <<before, loop, i, quit, screen>>

\* SDL_PollEvent delivers SDL_EVENT_QUIT
QuitEvent ==
  /\ loop = "poll"
  /\ quit' = TRUE
  /\ UNCHANGED <<memory, V, I, pc, sp, stack, delay_timer, sound_timer, key,
                 gfx, drawFlag, opcode, out, oob, keyIndex, before, loop, i, screen>>

\* SDL_PollEvent delivers the key down of SDLK_ESCAPE: exit(0)
EscapeEvent ==
  /\ loop = "poll"
  /\ loop' = "exit"
  /\ UNCHANGED <<memory, V, I, pc, sp, stack, delay_timer, sound_timer, key,
                 gfx, drawFlag, opcode, out, oob, keyIndex, before, i, quit, screen>>

\* SDL_PollEvent has no more events: the for loop starts
PollDone ==
  /\ loop = "poll"
  /\ loop' = "cycles"
  /\ i' = 0
  /\ UNCHANGED <<memory, V, I, pc, sp, stack, delay_timer, sound_timer, key,
                 gfx, drawFlag, opcode, out, oob, keyIndex, before, quit, screen>>

\* the values the environment supplies to one emulate_cycle
Beyond(m) == IF m.pc + 1 >= MemSize THEN GarbageBytes ELSE {0}
Rands(m) ==
  IF m.pc < MemSize - 1 /\ m.memory[m.pc] \div 16 = 12 THEN RandBytes ELSE {0}
KeyBeyond(m) ==
  IF /\ m.pc < MemSize - 1 /\ m.memory[m.pc] \div 16 = 14
     /\ m.V[m.memory[m.pc] % 16] >= NumKeys
    THEN GarbageBytes ELSE {0}

\* one pass of the for loop: myChip8.emulate_cycle()
Cycle ==
  /\ loop = "cycles"
  /\ i < cyclesPerFrame
  /\ oob < MaxOob
  /\ \E g1 \in Beyond(Chip), g2 \in Beyond(Chip), r \in Rands(Chip),
        g \in KeyBeyond(Chip) :
       Becomes(emulate_cycle(Chip, g1, g2, r, g))
  /\ before' = Snapshot(Chip)
  /\ i' = i + 1
  /\ UNCHANGED <<loop, quit, screen>>

\* after the for loop: drawGraphics and drawFlag = false when the flag is
\* set, then the loop test on quit
Present ==
  /\ loop = "cycles"
  /\ i = cyclesPerFrame
  /\ IF drawFlag
       THEN screen' = drawGraphics(gfx) /\ drawFlag' = FALSE
       ELSE UNCHANGED <<screen, drawFlag>>
  /\ loop' = IF quit THEN "exit" ELSE "poll"
  /\ UNCHANGED <<memory, V, I, pc, sp, stack, delay_timer, sound_timer, key,
                 gfx, opcode, out, oob, keyIndex, before, i, quit>>

Next ==
  \/ LoadRom
  \/ LoadFails
  \/ KeyEvent
  \/ QuitEvent
  \/ EscapeEvent
  \/ PollDone
  \/ Cycle
  \/ Present

Spec == Init /\ [][Next]_vars

\* the runs in which no input event arrives
NextOps ==
  \/ LoadOpRom
  \/ PollDone
  \/ Cycle
  \/ Present

SpecOps == Init /\ [][NextOps]_vars

(* ----------------- the methods of myChip8, in any order --------------- *)

LoadApiRom == LoadFrom(ApiRoms)

\* myChip8.set_key(k, pressed) with any int k, between any two steps
SetKey ==
  /\ loop \in {"poll", "cycles"}
  /\ \E k \in KeyIndices, pressed \in BOOLEAN :
       Becomes(set_key(Chip, k, pressed))
  /\ UNCHANGED <<before, loop, i, quit, screen>>

\* myChip8.initialize() called again, in any state; the ROM file is then
\* loaded again
Reset ==
  /\ loop \in {"load", "poll", "cycles"}
  /\ Becomes(initialize(Chip))
  /\ before' = Snapshot(initialize(Chip))
  /\ loop' = "load"
  /\ UNCHANGED <<i, quit, screen>>

NextApi ==
  \/ LoadApiRom
  \/ SetKey
  \/ Reset
  \/ PollDone
  \/ Cycle
  \/ Present

SpecApi == Init /\ [][NextApi]_vars

(* ------------------------------ the claims ---------------------------- *)

\* the step taken is one call of emulate_cycle (the only step that counts i up)
Stepped == i' = i + 1

\* the state is the one right after a call of emulate_cycle in this frame
AfterStep == loop = "cycles" /\ i > 0

\* no key flag is set
NoKey == \A k \in DOMAIN key : key[k] = 0

\* the step fetches a call with the stack full, a return with the stack
\* empty, or FX0A with no key pressed
StepFails ==
  \/ Family(opcode') = 2 /\ sp >= StackLimit
  \/ Family(opcode') = 0 /\ OpNN(opcode') = 238 /\ sp = 0

StepWaits == Family(opcode') = 15 /\ OpNN(opcode') = 10 /\ NoKey

\* C1: call/return round trip. A 2NNN executed at pc = p saves p + 2 as a
\* full 16-bit value, and a 00EE executed right after it at pc = NNN leaves
\* pc = p + 2 and the stack pointer at its value before the call.
C1_CallReturnRoundTrip ==
  [][Stepped =>
       /\ (Family(opcode') = 2 /\ sp < StackLimit) => stack'[sp] = pc + 2
       /\ ( /\ Family(opcode) = 2 /\ before.sp < StackLimit
            /\ pc = OpNNN(opcode) /\ sp = before.sp + 1
            /\ opcode' = Ins(0, 0, 14, 14) )
          => (pc' = before.pc + 2 /\ sp' = before.sp)]_vars

\* C2: a recognized FX instruction that completes (FX07, FX15, FX18, FX1E,
\* FX29, FX33, FX55, FX65) advances pc by exactly 2 in its step.
C2_FxAdvancesByTwo ==
  [][(Stepped /\ Family(opcode') = 15
        /\ OpNN(opcode') \in {7, 21, 24, 30, 41, 51, 85, 101})
     => pc' = pc + 2]_vars

\* C3: key-wait completion. A step that fetches FX0A with at least one key
\* flag set stores the lowest pressed key index in Vx and advances pc by
\* exactly 2.
C3_KeyWaitCompletes ==
  [][(Stepped /\ Family(opcode') = 15 /\ OpNN(opcode') = 10 /\ ~NoKey)
     => /\ V'[OpX(opcode')] = Lowest({k \in DOMAIN key : key[k] # 0})
        /\ \A k \in DOMAIN key : key[k] # 0 => V'[OpX(opcode')] <= k
        /\ pc' = pc + 2]_vars

\* C4: key-wait suspension. A step that fetches FX0A while no key flag is
\* set leaves pc, V0..VF, I, sp, the stack, memory, the framebuffer, the draw
\* flag and both timers unchanged, so the instruction at pc is the same FX0A
\* for the next step.
C4_KeyWaitSuspends ==
  [][(Stepped /\ StepWaits)
     => /\ UNCHANGED <<pc, V, I, sp, stack, memory, gfx, drawFlag,
                       delay_timer, sound_timer>>
        /\ pc' + 1 < MemSize
        /\ memory'[pc'] * 256 + memory'[pc' + 1] = opcode']_vars

\* C4 witness: two steps in a row have fetched the same FX0A with no key
\* pressed and the delay timer running, and pc has stayed on it
C4_Witness ==
  /\ AfterStep /\ i > 1 /\ NoKey
  /\ Family(opcode) = 15 /\ OpNN(opcode) = 10
  /\ before.opcode = opcode /\ before.pc = pc
  /\ delay_timer > 0

\* C5: stack depth limit. A 2NNN executed with sp < 16 pushes its return
\* address pc + 2, increments sp and goes to NNN (so sixteen nested calls
\* from an empty stack succeed); a 2NNN executed with sp = 16 changes
\* neither pc nor sp nor any stack slot.
C5_StackDepthLimit ==
  [][(Stepped /\ Family(opcode') = 2)
     => IF sp < StackLimit
          THEN /\ stack' = [stack EXCEPT ![sp] = pc + 2]
               /\ sp' = sp + 1
               /\ pc' = OpNNN(opcode')
          ELSE UNCHANGED <<pc, sp, stack>>]_vars

\* the instruction at pc is a call with the stack full or a return with the
\* stack empty
Halted ==
  /\ pc + 1 < MemSize
  /\ \/ memory[pc] \div 16 = 2 /\ sp >= StackLimit
     \/ memory[pc] \div 16 = 0 /\ memory[pc + 1] = 238 /\ sp = 0

\* C6: a step that fails with stack overflow or underflow changes no machine
\* state, timers included, and reports the failure; the machine is then in
\* the same failing state, so that pc, registers, I, sp, stack, memory,
\* framebuffer and timers never change again whatever steps and input events
\* follow.
C6_FailedStepHalts ==
  [][Halted
     => /\ Halted'
        /\ UNCHANGED <<pc, V, I, sp, stack, memory, gfx, delay_timer,
                       sound_timer>>
        /\ Stepped => /\ out' \in {<<MsgOverflow>>, <<MsgUnderflow>>}
                      /\ drawFlag' = drawFlag]_vars

\* C6 witness: the seventeenth nested call has failed twice in a row with
\* both timers still running
C6_Witness ==
  /\ AfterStep /\ i > 1 /\ Halted
  /\ sp = StackLimit /\ out = <<MsgOverflow>>
  /\ before.opcode = opcode /\ before.pc = pc
  /\ delay_timer > 0 /\ sound_timer > 0

\* C7: memory safety of step. No call of emulate_cycle reads a memory index
\* outside 0..4095: a step entered with pc > 4094 does not fetch.
C7_FetchInBounds == oob = 0

\* the flag of 8XYn for the operand values vx, vy
Flag8(n, vx, vy) ==
  CASE n = 4 -> IF vx + vy > 255 THEN 1 ELSE 0
    [] n = 5 -> IF vx >= vy THEN 1 ELSE 0
    [] n = 6 -> vx % 2
    [] n = 7 -> IF vy >= vx THEN 1 ELSE 0
    [] n = 14 -> vx \div 128

\* C8: flag law of family 8. After 8XY4, 8XY5, 8XY6, 8XY7 or 8XYE, for
\* every x and y, VF is the flag computed from the values Vx and Vy held
\* before the instruction.
C8_FlagLaw ==
  [][(Stepped /\ Family(opcode') = 8 /\ OpN(opcode') \in {4, 5, 6, 7, 14})
     => V'[15] = Flag8(OpN(opcode'), V[OpX(opcode')], V[OpY(opcode')])]_vars

\* the step is the second of two DXYN in a row with the same instruction
\* word and the same Vx, Vy and I on entry
SecondDraw ==
  /\ Stepped
  /\ Family(opcode) = 13 /\ opcode' = opcode
  /\ V[OpX(opcode)] = before.V[OpX(opcode)]
  /\ V[OpY(opcode)] = before.V[OpY(opcode)]
  /\ I = before.I

\* the rows of the sprite of the instruction word op that lie in memory
SpriteRows(op) == {row \in 0..(OpN(op) - 1) : I + row < MemSize}

\* the sprite has at least one set bit
SpriteSet(op) == \E row \in SpriteRows(op) : memory[I + row] # 0

\* the framebuffer indices the sprite covers when drawn at (vx, vy)
SpritePixels(op, vx, vy) ==
  {((vy + row) % GfxHeight) * GfxWidth + ((vx + col) % GfxWidth) :
     <<row, col>> \in {rc \in SpriteRows(op) \X (0..7) :
                         Bit(memory[I + rc[1]], 7 - rc[2]) = 1}}

\* C9 as stated: the second of two identical draws returns every pixel to its
\* value before the first draw and leaves VF = 1 if the sprite has a set bit,
\* VF = 0 if it has none.
C9_DrawTwiceOriginal ==
  [][SecondDraw
     => /\ gfx' = before.gfx
        /\ V'[15] = IF SpriteSet(opcode) THEN 1 ELSE 0]_vars

\* C9 amended: for x and y other than F, the second of two identical draws
\* returns every pixel to its value before the first draw, and leaves VF = 1
\* exactly when some pixel the sprite covers was clear before the first draw.
C9_DrawTwice ==
  [][(SecondDraw /\ OpX(opcode) # 15 /\ OpY(opcode) # 15)
     => /\ gfx' = before.gfx
        /\ V'[15] =
             IF \E p \in SpritePixels(opcode, V[OpX(opcode)], V[OpY(opcode)]) :
                  before.gfx[p] = 0
               THEN 1 ELSE 0]_vars

\* C9 witness: the two-row sprite has been drawn twice in a row through
\* registers other than VF at (62, 31), wrapping round both screen edges,
\* over a screen that held its first row: the second draw has reported the
\* collision and that row is set again
C9_Witness ==
  /\ AfterStep
  /\ Family(opcode) = 13 /\ before.opcode = opcode /\ OpN(opcode) = 2
  /\ OpX(opcode) # 15 /\ OpY(opcode) # 15
  /\ V[OpX(opcode)] = 62 /\ V[OpY(opcode)] = 31
  /\ V[15] = 1
  /\ gfx[31 * GfxWidth + 62] = 1 /\ gfx[31 * GfxWidth + 63] = 1
  /\ gfx[0] = 0 /\ gfx[63] = 0

\* C10: timer tick. In a step whose handler completes, each timer, taken
\* after the handler has run (FX15 and FX18 set it to Vx), goes down by
\* exactly 1 if it is > 0 and stays 0 otherwise, and the sound-finished
\* message is emitted exactly when the sound timer was 1 before the
\* decrement; in a step that fails or finds no key in FX0A neither timer
\* changes and no message is emitted.
C10_TimerTick ==
  [][Stepped =>
       LET x == OpX(opcode')
           isF(nn) == Family(opcode') = 15 /\ OpNN(opcode') = nn
           d == IF isF(21) THEN V[x] ELSE delay_timer
           s == IF isF(24) THEN V[x] ELSE sound_timer
           said == \E k \in DOMAIN out' : out'[k] = MsgSound
       IN IF StepFails \/ StepWaits
            THEN /\ UNCHANGED <<delay_timer, sound_timer>>
                 /\ ~said
            ELSE /\ delay_timer' = IF d > 0 THEN d - 1 ELSE 0
                 /\ sound_timer' = IF s > 0 THEN s - 1 ELSE 0
                 /\ said <=> s = 1]_vars

\* C10 witness: a step entered with the sound timer at 1 and the delay timer
\* at 2 has emitted the message and brought the timers to 0 and 1
C10_Witness ==
  /\ AfterStep
  /\ before.sound_timer = 1 /\ sound_timer = 0
  /\ before.delay_timer = 2 /\ delay_timer = 1
  /\ \E k \in DOMAIN out : out[k] = MsgSound

\* the step fetches the instruction FXnn
StepsF(nn) == Stepped /\ Family(opcode') = 15 /\ OpNN(opcode') = nn

\* C11: FX33 bounds. For every I and Vx, FX33 writes the hundreds, tens and
\* ones digits of Vx to memory[I], memory[I+1], memory[I+2] if and only if
\* I + 2 < 4096 (so also for I = 4093) and writes nothing otherwise; I is
\* unchanged and no other memory cell changes.
C11_BcdBounds ==
  [][StepsF(51)
     => LET value == V[OpX(opcode')]
        IN /\ I' = I
           /\ memory' =
                IF I + 2 < MemSize
                  THEN [memory EXCEPT ![I] = value \div 100,
                                      ![I + 1] = (value \div 10) % 10,
                                      ![I + 2] = value % 10]
                  ELSE memory]_vars

\* C12: block transfers are all-or-nothing. FX55 copies V0..Vx to
\* memory[I..I+x] and FX65 copies memory[I..I+x] to V0..Vx exactly when
\* I + x < 4096; when I + x >= 4096 no memory cell and no register changes;
\* I is unchanged in every case, and the memory cells outside [I, I+x] and
\* the registers above Vx are never touched.
C12_BlockTransfer ==
  [][(StepsF(85) \/ StepsF(101))
     => LET x == OpX(opcode')
            fits == I + x < MemSize
        IN /\ I' = I
           /\ StepsF(85) =>
                /\ V' = V
                /\ \A a \in DOMAIN memory :
                     memory'[a] = IF fits /\ a >= I /\ a <= I + x
                                    THEN V[a - I] ELSE memory[a]
           /\ StepsF(101) =>
                /\ memory' = memory
                /\ \A r \in DOMAIN V :
                     V'[r] = IF fits /\ r <= x THEN memory[I + r] ELSE V[r]]_vars

\* C12 witness: F155 entered with I = 4095 (V0 = 0x11, V1 = 0x22) has been
\* refused: the message is out and memory[4095] is still 0
C12_Witness ==
  /\ AfterStep
  /\ opcode = Ins(15, 1, 5, 5) /\ before.I = MemSize - 1
  /\ before.V[0] = 17 /\ before.V[1] = 34
  /\ \E k \in DOMAIN out : out[k] = MsgBounds
  /\ memory[MemSize - 1] = 0

\* the instruction word op is none of the instructions of its family
Unrecognized(op) ==
  \/ Family(op) = 0 /\ OpNN(op) \notin {224, 238}
  \/ Family(op) = 8 /\ OpN(op) \notin (0..7) \cup {14}
  \/ Family(op) = 14 /\ OpNN(op) \notin {158, 161}
  \/ Family(op) = 15 /\ OpNN(op) \notin {7, 10, 21, 24, 30, 41, 51, 85, 101}

\* C13: an unrecognized opcode in family 0, 8, E or F is non-fatal: the step
\* changes no register, I, stack, memory or framebuffer state and advances
\* pc by exactly 2.
C13_UnknownOpcode ==
  [][(Stepped /\ Unrecognized(opcode'))
     => /\ UNCHANGED <<V, I, sp, stack, memory, gfx>>
        /\ pc' = pc + 2]_vars

\* the step is a call of set_key: it leaves main where it is
KeyCall == loop' = loop /\ i' = i /\ quit' = quit

\* C14: set_key with an index outside 0..15 changes no VM state; set_key
\* with an index k in 0..15 sets key flag k to the given value and changes
\* no other key flag and no other VM state.
C14_SetKey ==
  [][KeyCall
     => /\ UNCHANGED <<memory, V, I, pc, sp, stack, delay_timer, sound_timer,
                       gfx, drawFlag, opcode>>
        /\ \/ \E k \in KeyIndices \ (0..(NumKeys - 1)) :
                out' = <<MsgInvalidKey(k)>> /\ key' = key
           \/ \E k \in 0..(NumKeys - 1), pressed \in BOOLEAN :
                /\ out' = << >>
                /\ key' = [key EXCEPT ![k] = IF pressed THEN 1 ELSE 0]]_vars

\* C14 witness: set_key(16, ...) has been refused in the middle of a batch of
\* cycles, with the keys 0 and 15 down and a call on the stack
C14_Witness ==
  /\ out = <<MsgInvalidKey(NumKeys)>>
  /\ loop = "cycles" /\ i > 0 /\ sp > 0
  /\ key[0] = 1 /\ key[NumKeys - 1] = 1

\* C15: stack pointer invariant. In every state reachable from initialize
\* through steps and key changes, 0 <= sp <= 16, and the stack slot written
\* by 2NNN (slot sp) and the one read by 00EE (slot sp - 1) has an index in
\* 0..15.
C15_StackPointer ==
  [][/\ sp' >= 0 /\ sp' <= StackLimit
     /\ DOMAIN stack' = 0..(StackLimit - 1)
     /\ (Stepped /\ Family(opcode') = 2 /\ sp' # sp)
        => /\ sp \in 0..(StackLimit - 1) /\ sp' = sp + 1
           /\ \A s \in DOMAIN stack : s # sp => stack'[s] = stack[s]
     /\ (Stepped /\ opcode' = Ins(0, 0, 14, 14) /\ sp' # sp)
        => /\ sp - 1 \in 0..(StackLimit - 1) /\ sp' = sp - 1
           /\ pc' = stack[sp - 1] /\ stack' = stack]_vars

\* C15 witness: the sixteenth nested call has written slot 15 and left
\* sp = 16, with a key down
C15_Witness ==
  /\ AfterStep /\ Family(opcode) = 2
  /\ before.sp = StackLimit - 1 /\ sp = StackLimit
  /\ stack[StackLimit - 1] = U8(before.pc + 2)
  /\ ~NoKey

\* C16: 7XNN adds without a carry flag. For every x other than F and every
\* NN, after 7XNN the register Vx is (old Vx + NN) mod 256, VF and every
\* other register are unchanged and pc has advanced by exactly 2; 6XNN leaves
\* Vx = NN with pc advanced by exactly 2.
C16_AddImmediate ==
  [][Stepped
     => LET x == OpX(opcode')
            NN == OpNN(opcode')
        IN /\ (Family(opcode') = 7 /\ x # 15)
              => /\ V' = [V EXCEPT ![x] = (V[x] + NN) % 256]
                 /\ pc' = pc + 2
           /\ Family(opcode') = 6 => (V'[x] = NN /\ pc' = pc + 2)]_vars

\* C16 witness: 7X01 with Vx = 0xFF, x other than F, has left Vx = 0 and
\* VF at the 7 it held
C16_Witness ==
  /\ AfterStep /\ Family(opcode) = 7 /\ OpX(opcode) # 15
  /\ OpNN(opcode) = 1 /\ before.V[OpX(opcode)] = 255
  /\ V[OpX(opcode)] = 0 /\ before.V[15] = 7 /\ V[15] = 7

\* C17: reset. From any machine state initialize produces the same state:
\* pc = 0x200, sp = 0, I = 0, all registers, both timers, all key flags, all
\* stack slots and all framebuffer pixels zero, draw flag false,
\* memory[0..79] the font table and memory[80..4095] zero; a second call of
\* initialize changes nothing.
C17_Reset ==
  [][loop' = "load"
     => /\ pc' = 512 /\ sp' = 0 /\ I' = 0
        /\ V' = [r \in 0..15 |-> 0]
        /\ delay_timer' = 0 /\ sound_timer' = 0
        /\ key' = [k \in 0..15 |-> 0]
        /\ stack' = [k \in 0..15 |-> 0]
        /\ gfx' = [p \in 0..2047 |-> 0]
        /\ drawFlag' = FALSE
        /\ memory' = [a \in 0..4095 |->
                        IF a <= 79 THEN chip8_font[a + 1] ELSE 0]
        /\ initialize(Chip') = Chip']_vars

\* C17 witness: initialize has been called after a ROM was loaded and run
\* and its drawing presented: the window still shows pixels, the
\* framebuffer and the ROM area are zero, pc is back at 0x200
C17_Witness ==
  /\ loop = "load" /\ i > 0
  /\ \E p \in DOMAIN screen : screen[p] = 1
  /\ \A p \in DOMAIN gfx : gfx[p] = 0
  /\ pc = RomBase /\ memory[RomBase] = 0 /\ NoKey

\* C18: result law of 8XY4, 8XY5, 8XY7. For every x other than F and every
\* y in 0..F (y = F included), Vx ends as (old Vx + old Vy) mod 256,
\* (old Vx - old Vy) mod 256 and (old Vy - old Vx) mod 256, old Vy being the
\* value Vy held before the instruction wrote the flag.
C18_ResultLaw ==
  [][(Stepped /\ Family(opcode') = 8 /\ OpN(opcode') \in {4, 5, 7}
        /\ OpX(opcode') # 15)
     => LET x == OpX(opcode')
            y == OpY(opcode')
        IN V'[x] = CASE OpN(opcode') = 4 -> (V[x] + V[y]) % 256
                     [] OpN(opcode') = 5 -> (V[x] - V[y]) % 256
                     [] OpN(opcode') = 7 -> (V[y] - V[x]) % 256]_vars

\* C19: sprite placement. For every x and y in 0..F (F included), DXYN
\* toggles exactly the pixels ((Vx + col) mod 64, (Vy + row) mod 32) of the
\* set bits of memory[I + row] (row < N, col < 8, most significant bit
\* first, rows with I + row >= 4096 skipped), Vx and Vy being the values held
\* when the instruction was fetched; VF ends as 1 if a toggled pixel was set
\* before and 0 otherwise; the draw flag is set and I is unchanged.
C19_SpritePlacement ==
  [][(Stepped /\ Family(opcode') = 13)
     => LET px == SpritePixels(opcode', V[OpX(opcode')], V[OpY(opcode')])
        IN /\ gfx' = [p \in DOMAIN gfx |->
                        IF p \in px THEN 1 - gfx[p] ELSE gfx[p]]
           /\ V'[15] = IF \E p \in px : gfx[p] = 1 THEN 1 ELSE 0
           /\ drawFlag' = TRUE
           /\ I' = I]_vars

\* C20: draw flag protocol. emulate_cycle never changes the draw flag from
\* set to clear and sets it in every 00E0 and DXYN step; the driver loop
\* clears it only in the step that presents the framebuffer, so that when
\* input is polled and when a batch of cycles starts the flag is clear and
\* the window shows the framebuffer.
C20_DrawFlagProtocol ==
  [][/\ Stepped
        => /\ drawFlag => drawFlag'
           /\ (Family(opcode') = 13 \/ opcode' = Ins(0, 0, 14, 0)) => drawFlag'
     /\ (drawFlag /\ ~drawFlag')
        => /\ loop = "cycles" /\ i = cyclesPerFrame
           /\ gfx' = gfx /\ screen' = gfx
     /\ loop' = "poll" => (~drawFlag' /\ screen' = gfx')
     /\ (loop = "poll" /\ loop' = "cycles") => (~drawFlag /\ screen = gfx)]_vars

\* C20 witness: a batch of cycles that drew has ended, the framebuffer with
\* its set pixels is in the window, the flag is clear and input is polled
C20_Witness ==
  /\ loop = "poll" /\ i = cyclesPerFrame
  /\ ~drawFlag /\ screen = gfx
  /\ Family(opcode) = 1 /\ \E p \in DOMAIN gfx : gfx[p] = 1

\* C21: keypad access safety. For EX9E and EXA1 the key flag consulted has
\* an index in 0..15 whatever value Vx holds; a step never reads the keypad
\* array outside its 16 entries and never modifies a key flag.
C21_KeypadAccess ==
  [][Stepped
     => /\ key' = key
        /\ keyIndex' \in -1..(NumKeys - 1)
        /\ (Family(opcode') = 14 /\ OpNN(opcode') \in {158, 161})
           => keyIndex' \in 0..(NumKeys - 1)]_vars

=============================================================================
